---- MODULE Spec2Model ----
(***************************************************************************)
(* request_http_cache.py: bulk HTTP GET checker.                           *)
(*                                                                         *)
(* Text is modelled as sequences of one-character strings, so that strip,  *)
(* rstrip, lstrip, partition and lower act on characters as in Python.     *)
(* Error messages are TLC strings built with \o and ToString.              *)
(* Python's None is the empty tuple, a present value x is <<x>>.           *)
(***************************************************************************)
EXTENDS Integers, Sequences, FiniteSets, TLC

VARIABLES
    conf,          \* parsed command line (line 112), read-only afterwards
    input,         \* conf.input.readlines(): the raw lines, each with its "\n"
    world,         \* what session.get may do for an attempt (the network)
    urls,          \* main's urls list (lines 113-117)
    pc,            \* main thread: "load", "consume", "after", "exited"
    workers,       \* ThreadPool workers: the task each one runs, if any
    next_task,     \* index into urls of the next task the pool hands out
    outq,          \* results delivered by imap_unordered, completion order
    i,             \* enumerate index of the for loop (line 132)
    errors_count,  \* line 120
    out,           \* what was printed, in order
    broke,         \* the for loop was left by the break of line 140
    interrupted,   \* KeyboardInterrupt was raised in the main thread
    exitcode,      \* process exit status once pc = "exited"
    trace,         \* per url index: the attempts and sleeps of its request_url call
    ret,           \* per url index: what its request_url call returned, if it did
    handed,        \* per url index: how many times the pool gave it to a worker
    seen           \* per url index: how many outcomes for it the for loop consumed

vars == <<conf, input, world, urls, pc, workers, next_task, outq, i,
          errors_count, out, broke, interrupted, exitcode, trace, ret, handed,
          seen>>

----------------------------------------------------------------------------
(* Bounds of the model *)

MaxUrls == 3
MaxRetry == 2
MaxErrors == 1
MaxThreads == 2
MaxLines == 2
MaxLineLen == 2

----------------------------------------------------------------------------
(* Python values *)

None == <<>>
Some(x) == <<x>>

Whitespace == {" ", "\n"}

\* str.lstrip(chars)
RECURSIVE lstrip(_, _)
lstrip(s, cs) ==
    IF s # <<>> /\ s[1] \in cs THEN lstrip(Tail(s), cs) ELSE s

\* str.rstrip(chars)
RECURSIVE rstrip(_, _)
rstrip(s, cs) ==
    IF s # <<>> /\ s[Len(s)] \in cs
    THEN rstrip(SubSeq(s, 1, Len(s) - 1), cs)
    ELSE s

\* str.strip()
strip(s) == lstrip(rstrip(s, Whitespace), Whitespace)

\* the text of a character sequence, for "%s" formatting
RECURSIVE Str(_)
Str(s) == IF s = <<>> THEN "" ELSE s[1] \o Str(Tail(s))

----------------------------------------------------------------------------
(* Input loader, lines 113-117 *)

\* line 113: urls = [url.strip() for url in conf.input.readlines()]
StrippedLines(lines) == [k \in 1..Len(lines) |-> strip(lines[k])]

\* line 114: urls = list(filter(None, urls))
FilterNone(seq) == SelectSeq(seq, LAMBDA u : u # <<>>)

\* line 115 raises AttributeError when conf.base is None
BaseRaises(base) == base = None

\* line 116: if conf.base  (a str is true iff it is non-empty)
BaseTruthy(base) == base # None /\ base[1] # <<>>

\* a join that keeps the fragment's leading slashes
JoinBaseKeepSlashes(base, url) == base \o <<"/">> \o url

\* line 117: base + "/" + url.lstrip("/")
JoinBase(base, url) == base \o <<"/">> \o lstrip(url, {"/"})

\* lines 113-117 when line 115 does not raise
LoadUrls(lines, base) ==
    LET stripped == FilterNone(StrippedLines(lines))
        b == rstrip(base[1], {"/"})
    IN  IF BaseTruthy(base)
        THEN [k \in 1..Len(stripped) |-> JoinBase(b, stripped[k])]
        ELSE stripped

----------------------------------------------------------------------------
(* parse_user_input_headers, lines 21-28 *)

\* str.lower() on the letters the model uses
LowerChar(c) ==
    CASE c = "X" -> "x"
      [] c = "Y" -> "y"
      [] c = "H" -> "h"
      [] c = "M" -> "m"
      [] OTHER -> c

lower(s) == [k \in 1..Len(s) |-> LowerChar(s[k])]

\* index of the first ":" of s, or 0
FirstColon(s) ==
    IF \E k \in 1..Len(s) : s[k] = ":"
    THEN CHOOSE k \in 1..Len(s) : s[k] = ":" /\ \A j \in 1..(k - 1) : s[j] # ":"
    ELSE 0

\* line 26: name, _, value = header.partition(":")
partition(s) ==
    LET k == FirstColon(s)
    IN  IF k = 0
        THEN [name |-> s, value |-> <<>>]
        ELSE [name |-> SubSeq(s, 1, k - 1), value |-> SubSeq(s, k + 1, Len(s))]

\* headers_dict[name] = value: a dict keeps the position of an existing key
DictSet(d, name, value) ==
    IF \E k \in 1..Len(d) : d[k].name = name
    THEN [k \in 1..Len(d) |->
            IF d[k].name = name THEN [name |-> name, value |-> value] ELSE d[k]]
    ELSE Append(d, [name |-> name, value |-> value])

RECURSIVE ParseLoop(_, _)
ParseLoop(headers, d) ==
    IF headers = <<>>
    THEN d
    ELSE LET p == partition(Head(headers))
         IN  ParseLoop(Tail(headers),
                       DictSet(d, lower(strip(p.name)), strip(p.value)))

parse_user_input_headers(headers) ==
    IF headers = None THEN <<>> ELSE ParseLoop(headers[1], <<>>)

----------------------------------------------------------------------------
(* request_url, lines 31-71 *)

\* What one session.get call may do: raise Timeout/ConnectionError ("conn"),
\* raise another exception ("exc"), or return a response ("resp").
ConnError(msg) ==
    [kind |-> "conn", msg |-> msg, status_code |-> 0, content |-> 0, headers |-> <<>>]
OtherError(msg) ==
    [kind |-> "exc", msg |-> msg, status_code |-> 0, content |-> 0, headers |-> <<>>]
Response(code, len, hdrs) ==
    [kind |-> "resp", msg |-> "", status_code |-> code, content |-> len, headers |-> hdrs]

\* str(response.status_code)[0]: the leading decimal digit
RECURSIVE FirstDigit(_)
FirstDigit(n) == IF n < 10 THEN n ELSE FirstDigit(n \div 10)

\* a server-error test with no upper end
IsServerErrorOpenEnded(code) == code >= 500

\* line 57
IsServerError(code) == FirstDigit(code) = 5

\* "response status code %d" % response.status_code
StatusError(code) == "response status code " \o ToString(code)

\* response.headers.get(name): requests keeps them case-insensitively
HeaderGet(hdrs, name) ==
    IF \E k \in 1..Len(hdrs) : lower(hdrs[k].name) = lower(name)
    THEN Some((hdrs[CHOOSE k \in 1..Len(hdrs) : lower(hdrs[k].name) = lower(name)]).value)
    ELSE None

\* a header check that reports the last failing assertion
LastMismatch(check_headers, hdrs) ==
    LET bad == {k \in 1..Len(check_headers) :
                  HeaderGet(hdrs, check_headers[k].name) # Some(check_headers[k].value)}
    IN  IF bad = {} THEN 0 ELSE CHOOSE k \in bad : \A j \in bad : j <= k

\* lines 68-70: the first assertion of check_headers that the response fails, or 0
FirstMismatch(check_headers, hdrs) ==
    LET bad == {k \in 1..Len(check_headers) :
                  HeaderGet(hdrs, check_headers[k].name) # Some(check_headers[k].value)}
    IN  IF bad = {} THEN 0 ELSE CHOOSE k \in bad : \A j \in bad : k <= j

HeaderError(h) ==
    "response headers check failed (" \o Str(h.name) \o ": " \o Str(h.value) \o ")"

\* the tuple request_url returns
Outcome(url, error) == [url |-> url, error |-> error]

\* a retry test that is off by one
RetriesLeftOffByOne(retry_count) == retry_count > 1

\* lines 50 and 58: a retryable result is retried while retry_count > 0
RetriesLeft(retry_count) == retry_count > 0

\* a loop that retries server errors only
RetryableServerErrorOnly(r) == r.kind = "resp" /\ IsServerError(r.status_code)

\* lines 49 and 57: the results the loop may retry
Retryable(r) ==
    \/ r.kind = "conn"
    \/ r.kind = "resp" /\ IsServerError(r.status_code)

\* a classification that evaluates the header assertions before the body
ClassifyHeadersFirst(url, check_headers, r) ==
    IF r.kind \in {"conn", "exc"} THEN Outcome(url, Some(r.msg))
    ELSE IF r.status_code # 200
        THEN Outcome(url, Some(StatusError(r.status_code)))
    ELSE IF FirstMismatch(check_headers, r.headers) # 0
        THEN Outcome(url, Some(HeaderError(
                check_headers[FirstMismatch(check_headers, r.headers)])))
    ELSE IF r.content = 0
        THEN Outcome(url, Some("response empty"))
    ELSE Outcome(url, None)

\* One pass of the loop body (lines 41-71) that ends in a return.
Classify(url, check_headers, r) ==
    IF r.kind \in {"conn", "exc"} THEN Outcome(url, Some(r.msg))
    ELSE IF IsServerError(r.status_code)
        THEN Outcome(url, Some(StatusError(r.status_code)))
    ELSE IF r.status_code # 200
        THEN Outcome(url, Some(StatusError(r.status_code)))
    ELSE IF r.content = 0
        THEN Outcome(url, Some("response empty"))
    ELSE LET k == FirstMismatch(check_headers, r.headers)
         IN  IF k # 0
             THEN Outcome(url, Some(HeaderError(check_headers[k])))
             ELSE Outcome(url, None)

\* line 40
LoopRuns(retry_count) == retry_count + 1 > 0

----------------------------------------------------------------------------
(* main, lines 74-149 *)

\* line 103: --retry-delay default
DefaultRetryDelay == 1

\* the time.sleep(retry_delay) of lines 51 and 59, as an entry of trace
Sleep(delay) ==
    [kind |-> "sleep", msg |-> "", status_code |-> delay, content |-> 0, headers |-> <<>>]

\* line 133: if error  (None and "" are both false)
Truthy(error) == error # None /\ error[1] # ""

\* a threshold test that stops one error early
\* a threshold test that stops one error late
TooManyPastLimit(count, max_errors) == count > max_errors + 1

TooManyAtLimit(count, max_errors) == count >= max_errors

\* line 138
TooMany(count, max_errors) == count > max_errors

\* an interrupt handler that falls through to the test of line 148
InterruptStatusFallThrough(count) == IF count > 0 THEN 1 ELSE 130

\* exit status of sys.exit(130), line 144
InterruptStatus(count) == 130

\* lines 148-149 (falling off main exits 0)
FinalStatus(count) == IF count > 0 THEN 1 ELSE 0

\* exit status of the interpreter after an uncaught exception
UncaughtStatus == 1

\* what print wrote: one record per print call
Printed(kind, url, text) == [kind |-> kind, url |-> url, text |-> text]

TwoDigits(n) == IF n < 10 THEN "0" \o ToString(n) ELSE ToString(n)

\* 100 * i / len(urls) rounded to two decimals, in hundredths (line 142)
Hundredths(k, total) == (20000 * k + total) \div (2 * total)

\* "%.2f%%" % (100 * i / len(urls)), line 142
Percent(k, total) ==
    LET h == Hundredths(k, total)
    IN  ToString(h \div 100) \o "." \o TwoDigits(h % 100) \o "%"

\* lines 135-137
ErrorPrints(url, error) ==
    (IF conf.no_progress THEN <<>> ELSE <<Printed("cr", <<>>, "\r")>>)
        \o <<Printed("error", url, error)>>

\* lines 141-142
ProgressPrints(k) ==
    IF conf.no_progress
    THEN <<>>
    ELSE <<Printed("progress", <<>>, Percent(k, Len(urls)))>>

\* lines 145-147
FinallyPrints ==
    IF conf.no_progress THEN <<>> ELSE <<Printed("newline", <<>>, "\n")>>

Idle == [task |-> 0, phase |-> "idle", retry_count |-> 0]

\* the ThreadPool of line 122 accepts tasks and delivers results
PoolRunning == pc = "consume"

\* the process and its daemon worker threads are alive
Alive == pc \in {"consume", "after"}

\* lines 113-131. Line 115 raises AttributeError when --base was not given.
Load ==
    /\ pc = "load"
    /\ IF BaseRaises(conf.base)
       THEN /\ urls' = FilterNone(StrippedLines(input))
            /\ pc' = "exited"
            /\ exitcode' = UncaughtStatus
       ELSE /\ urls' = LoadUrls(input, conf.base)
            /\ pc' = "consume"
            /\ exitcode' = exitcode
    /\ trace' = [k \in 1..Len(urls') |-> <<>>]
    /\ ret' = [k \in 1..Len(urls') |-> None]
    /\ handed' = [k \in 1..Len(urls') |-> 0]
    /\ seen' = [k \in 1..Len(urls') |-> 0]
    /\ workers' = [w \in 1..conf.threads |-> Idle]
    /\ errors_count' = 0
    /\ UNCHANGED <<conf, input, world, next_task, outq, i, out, broke, interrupted>>

\* a pool that leaves the task it hands out in its queue
TakeTaskAgain(w) ==
    /\ PoolRunning
    /\ workers[w].task = 0
    /\ next_task <= Len(urls)
    /\ workers' = [workers EXCEPT ![w] =
            [task |-> next_task, phase |-> "loop", retry_count |-> conf.retry_count]]
    /\ handed' = [handed EXCEPT ![next_task] = @ + 1]
    /\ UNCHANGED <<conf, input, world, urls, pc, next_task, outq, i, errors_count,
                   out, broke, interrupted, exitcode, trace, ret, seen>>

TakeTaskAfterStop(w) ==
    /\ Alive
    /\ workers[w].task = 0
    /\ next_task <= Len(urls)
    /\ workers' = [workers EXCEPT ![w] =
            [task |-> next_task, phase |-> "loop", retry_count |-> conf.retry_count]]
    /\ next_task' = next_task + 1
    /\ handed' = [handed EXCEPT ![next_task] = @ + 1]
    /\ UNCHANGED <<conf, input, world, urls, pc, outq, i, errors_count, out,
                   broke, interrupted, exitcode, trace, ret, seen>>

\* a free pool worker takes the next task: processor(urls[next_task])
TakeTask(w) ==
    /\ PoolRunning
    /\ workers[w].task = 0
    /\ next_task <= Len(urls)
    /\ workers' = [workers EXCEPT ![w] =
            [task |-> next_task, phase |-> "loop", retry_count |-> conf.retry_count]]
    /\ next_task' = next_task + 1
    /\ handed' = [handed EXCEPT ![next_task] = @ + 1]
    /\ UNCHANGED <<conf, input, world, urls, pc, outq, i, errors_count, out,
                   broke, interrupted, exitcode, trace, ret, seen>>

\* request_url returns rv (None when it falls off its end); the pool passes the
\* result to the iterator unless it was terminated meanwhile
Return(w, rv) ==
    /\ ret' = [ret EXCEPT ![workers[w].task] = Some(rv)]
    /\ outq' = IF PoolRunning THEN Append(outq, rv) ELSE outq
    /\ workers' = [workers EXCEPT ![w] = Idle]

\* one test of the while condition and, if it holds, one pass of the loop body
\* up to its return or its time.sleep (lines 40-71)
Attempt(w) ==
    /\ Alive
    /\ workers[w].phase = "loop"
    /\ LET k == workers[w].task
           rc == workers[w].retry_count
       IN  IF ~LoopRuns(rc)
           THEN /\ Return(w, None)
                /\ trace' = trace
           ELSE \E r \in world :
                  IF Retryable(r) /\ RetriesLeft(rc)
                  THEN /\ trace' = [trace EXCEPT ![k] =
                                      @ \o <<r, Sleep(conf.retry_delay)>>]
                       /\ workers' = [workers EXCEPT ![w].phase = "sleep"]
                       /\ UNCHANGED <<ret, outq>>
                  ELSE /\ trace' = [trace EXCEPT ![k] = Append(@, r)]
                       /\ Return(w, Some(Classify(urls[k],
                              parse_user_input_headers(conf.check_headers), r)))
    /\ UNCHANGED <<conf, input, world, urls, pc, next_task, i, errors_count, out,
                   broke, interrupted, exitcode, handed, seen>>

\* time.sleep returns: retry_count -= 1; continue (lines 52-53 and 60-61)
Wake(w) ==
    /\ Alive
    /\ workers[w].phase = "sleep"
    /\ workers' = [workers EXCEPT ![w].phase = "loop",
                                  ![w].retry_count = @ - 1]
    /\ UNCHANGED <<conf, input, world, urls, pc, next_task, outq, i, errors_count,
                   out, broke, interrupted, exitcode, trace, ret, handed, seen>>

\* one iteration of the for loop, lines 132-142. Unpacking a None result raises
\* TypeError, which leaves through the finally block uncaught.
Consume ==
    /\ pc = "consume"
    /\ outq # <<>>
    /\ outq' = Tail(outq)
    /\ i' = i + 1
    /\ seen' = [k \in DOMAIN seen |->
                  IF Head(outq) # None /\ Head(outq)[1].url = urls[k]
                  THEN seen[k] + 1
                  ELSE seen[k]]
    /\ LET rv == Head(outq)
       IN  IF rv = None
           THEN /\ out' = out \o FinallyPrints
                /\ pc' = "exited"
                /\ exitcode' = UncaughtStatus
                /\ UNCHANGED <<errors_count, broke>>
           ELSE LET url == rv[1].url
                    error == rv[1].error
                IN  /\ exitcode' = exitcode
                    /\ IF Truthy(error)
                       THEN /\ errors_count' = errors_count + 1
                            /\ IF TooMany(errors_count', conf.max_errors)
                               THEN /\ out' = out \o ErrorPrints(url, error[1])
                                        \o <<Printed("stop", <<>>, "Too many errors, exiting")>>
                                        \o FinallyPrints
                                    /\ broke' = TRUE
                                    /\ pc' = "after"
                               ELSE /\ out' = out \o ErrorPrints(url, error[1])
                                        \o ProgressPrints(i')
                                    /\ UNCHANGED <<broke, pc>>
                       ELSE /\ out' = out \o ProgressPrints(i')
                            /\ UNCHANGED <<errors_count, broke, pc>>
    /\ UNCHANGED <<conf, input, world, urls, workers, next_task, interrupted,
                   trace, ret, handed>>

\* imap_unordered is exhausted: the loop ends, the with block and the finally
\* block are left
Finish ==
    /\ pc = "consume"
    /\ i = Len(urls)
    /\ out' = out \o FinallyPrints
    /\ pc' = "after"
    /\ UNCHANGED <<conf, input, world, urls, workers, next_task, outq, i,
                   errors_count, broke, interrupted, exitcode, trace, ret, handed, seen>>

ExitAfterJoin ==
    /\ pc = "after"
    /\ \A w \in DOMAIN workers : workers[w] = Idle
    /\ exitcode' = FinalStatus(errors_count)
    /\ pc' = "exited"
    /\ UNCHANGED <<conf, input, world, urls, workers, next_task, outq, i,
                   errors_count, out, broke, interrupted, trace, ret, handed, seen>>

\* lines 148-149; leaving the with block (line 122) terminates the pool without
\* joining its worker threads, and they are daemon threads
Exit ==
    /\ pc = "after"
    /\ exitcode' = FinalStatus(errors_count)
    /\ pc' = "exited"
    /\ UNCHANGED <<conf, input, world, urls, workers, next_task, outq, i,
                   errors_count, out, broke, interrupted, trace, ret, handed, seen>>

\* KeyboardInterrupt inside the try block, lines 143-147
Interrupt ==
    /\ pc = "consume"
    /\ interrupted' = TRUE
    /\ out' = out \o FinallyPrints
    /\ exitcode' = InterruptStatus(errors_count)
    /\ pc' = "exited"
    /\ UNCHANGED <<conf, input, world, urls, workers, next_task, outq, i,
                   errors_count, broke, trace, ret, handed, seen>>

----------------------------------------------------------------------------
(* Command lines, inputs and networks *)

Hit == <<[name |-> <<"X">>, value |-> <<"H">>]>>
Miss == <<[name |-> <<"X">>, value |-> <<"M">>]>>
\* the value in another case, and two headers with a lower-case name
WrongCase == <<[name |-> <<"X">>, value |-> <<"h">>]>>
Both == <<[name |-> <<"x">>, value |-> <<"H">>], [name |-> <<"Y">>, value |-> <<"M">>]>>

\* a base URL with a trailing slash
BaseUrl == <<"h", "/">>

Config(base, threads, check_headers, retry_count, max_errors, no_progress) ==
    [base |-> base, threads |-> threads, check_headers |-> check_headers,
     retry_count |-> retry_count, retry_delay |-> DefaultRetryDelay,
     max_errors |-> max_errors, no_progress |-> no_progress]

\* state before line 113
Start(c, lines, net) ==
    /\ conf = c
    /\ input = lines
    /\ world = net
    /\ urls = <<>>
    /\ pc = "load"
    /\ workers = <<>>
    /\ next_task = 1
    /\ outq = <<>>
    /\ i = 0
    /\ errors_count = 0
    /\ out = <<>>
    /\ broke = FALSE
    /\ interrupted = FALSE
    /\ exitcode = 0
    /\ trace = <<>>
    /\ ret = <<>>
    /\ handed = <<>>
    /\ seen = <<>>

\* the k-th input line of a run: "/" followed by k letters, then the newline
RunLine(k) == <<"/">> \o [j \in 1..k |-> "a"] \o <<"\n">>

\* a blank line, then n fragments
RunInput(n) == <<<<" ", "\n">>>> \o [k \in 1..n |-> RunLine(k)]

\* the network of a run: a good response, a server error, and an exception
\* whose message is empty
RunWorld == { Response(200, 1, Hit), Response(503, 0, <<>>), OtherError("") }

\* --retry-count values of a run: a negative one, the default, one retry
RunRetryCounts == {-1, 0, 1}

Init ==
    \E base \in {None, Some(BaseUrl)}, threads \in 1..MaxThreads,
       retry_count \in RunRetryCounts, max_errors \in -1..MaxErrors,
       n \in 0..MaxUrls :
        Start(Config(base, threads, None, retry_count, max_errors, FALSE),
              RunInput(n), RunWorld)

Next ==
    \/ Load
    \/ \E w \in DOMAIN workers : TakeTask(w)
    \/ \E w \in DOMAIN workers : Attempt(w)
    \/ \E w \in DOMAIN workers : Wake(w)
    \/ Consume
    \/ Finish
    \/ Exit
    \/ Interrupt

Spec == Init /\ [][Next]_vars

----------------------------------------------------------------------------
(* One request_url call against a rich network: one URL, one worker *)

\* http.client accepts only status codes from 100 to 999
StatusCodes == {100, 200, 204, 301, 404, 499, 500, 503, 599, 600, 999}

RequestWorld ==
    { Response(code, 0, <<>>) : code \in StatusCodes \ {200} }
        \cup { Response(200, len, hdrs) : len \in {0, 1}, hdrs \in {<<>>, Hit, Miss, WrongCase, Both} }
        \cup { ConnError(msg) : msg \in {"", "timed out"} }
        \cup { OtherError(msg) : msg \in {"", "boom"} }

\* --check-headers as given on the command line
CheckHeaderArgs ==
    { None, Some(<<>>),
      Some(<< <<"X", ":", " ", "H">> >>),
      Some(<< <<"X", ":", "H">>, <<"Y", " ", ":", "M", " ">> >>),
      Some(<< <<"X", ":", "H">>, <<"x", ":", "M">> >>),
      Some(<< <<"Y">> >>) }

InitRequest ==
    \E retry_count \in -1..MaxRetry, check_headers \in CheckHeaderArgs,
       no_progress \in BOOLEAN :
        Start(Config(Some(BaseUrl), 1, check_headers, retry_count, 0, no_progress),
              RunInput(1), RequestWorld)

SpecRequest == InitRequest /\ [][Next]_vars

----------------------------------------------------------------------------
(* Two URLs against a network that mixes timeouts and server errors *)

\* line 108: --max-errors default
DefaultMaxErrors == 1

RetryWorld == { ConnError("timed out"), Response(503, 0, <<>>), Response(200, 1, Hit) }

InitRetry ==
    \E threads \in 1..MaxThreads, retry_count \in -1..MaxRetry :
        Start(Config(Some(BaseUrl), threads, None, retry_count, DefaultMaxErrors, TRUE),
              RunInput(2), RetryWorld)

SpecRetry == InitRetry /\ [][Next]_vars

----------------------------------------------------------------------------
(* The input loader alone, over every small input text and base *)

LineChars == {" ", "/", "a"}

\* every line of at most MaxLineLen characters, with its newline
Lines ==
    UNION { { l \o <<"\n">> : l \in [1..n -> LineChars] } : n \in 0..MaxLineLen }

Texts == UNION { [1..n -> Lines] : n \in 0..MaxLines }

\* the input ["a", "/b", ""]
ExampleText == << <<"a", "\n">>, <<"/", "b", "\n">>, <<"\n">> >>

Bases ==
    { None, Some(<<>>), Some(<<"/">>), Some(<<"h">>), Some(BaseUrl),
      Some(<<"h", "/", "/">>), Some(<<"h", "/", "x", "/">>) }

InitLoader ==
    \E base \in Bases, text \in Texts \cup {ExampleText} :
        Start(Config(base, 1, None, 0, 1, FALSE), text, RunWorld)

NextLoader == Load

SpecLoader == InitLoader /\ [][NextLoader]_vars

----------------------------------------------------------------------------
(* Vocabulary of the properties *)

\* the call for url k has returned
Returned(k) == ret[k] # None

\* the call for url k returned the pair (url, error)
ReturnedPair(k, url, error) == ret[k] = Some(Some([url |-> url, error |-> error]))

\* the GET attempts made for url k, and the sleeps
Attempts(k) == SelectSeq(trace[k], LAMBDA e : e.kind # "sleep")
Sleeps(k) == SelectSeq(trace[k], LAMBDA e : e.kind = "sleep")

\* sleeps of url k before position j of its trace
SleepsBefore(k, j) == Cardinality({m \in 1..(j - 1) : trace[k][m].kind = "sleep"})

\* every attempt made for url k got a 5xx response
All5xx(k) ==
    \A j \in 1..Len(Attempts(k)) :
        Attempts(k)[j].kind = "resp" /\ Attempts(k)[j].status_code \in 500..599

\* attempts and sleeps alternate, starting and ending with an attempt
Alternates(k) ==
    /\ Len(trace[k]) % 2 = 1
    /\ \A j \in 1..Len(trace[k]) :
          (trace[k][j].kind = "sleep") <=> (j % 2 = 0)

----------------------------------------------------------------------------
(* C1: for every URL and every --retry-count the command line accepts,     *)
(* request_url returns exactly one pair (url, error-or-None) whose first   *)
(* component is the input URL. Violated: with a negative retry_count the   *)
(* while loop never runs and request_url returns None.                     *)
C1_OneOutcomePerUrl ==
    \A k \in DOMAIN ret :
        Returned(k) => /\ ret[k][1] # None
                       /\ ret[k][1][1].url = urls[k]

(* C2: for every retry_count n >= 0, if every attempt for a URL gets a 5xx *)
(* response, there are exactly n + 1 attempts, n sleeps of retry_delay,    *)
(* one between each two consecutive attempts and none after the last, and  *)
(* the error is "response status code <code>" of the last attempt.         *)
C2_ServerErrorRetries ==
    \A k \in DOMAIN ret :
        (conf.retry_count >= 0 /\ Returned(k) /\ All5xx(k)) =>
            /\ Len(Attempts(k)) = conf.retry_count + 1
            /\ Len(Sleeps(k)) = conf.retry_count
            /\ Alternates(k)
            /\ \A j \in 1..Len(Sleeps(k)) : Sleeps(k)[j].status_code = conf.retry_delay
            /\ LET last == trace[k][Len(trace[k])]
               IN  /\ ReturnedPair(k, urls[k],
                         Some("response status code " \o ToString(last.status_code)))
                   /\ last.status_code = 503 =>
                         ReturnedPair(k, urls[k], Some("response status code 503"))

C2_Witness ==
    \E k \in DOMAIN ret :
        /\ conf.retry_count = 2
        /\ Returned(k)
        /\ All5xx(k)
        /\ Len(Attempts(k)) = 3
        /\ trace[k][5].status_code = 503

(* C3: a response is retried (after a sleep) exactly when its status code  *)
(* lies in 500..599 and retries remain; a response that is not retried     *)
(* ends the call; and a status code other than 200 that is not retried is  *)
(* reported as "response status code <code>" on that attempt.              *)
C3_RetryableIffServerError ==
    \A k \in DOMAIN trace :
        \A j \in 1..Len(trace[k]) :
            trace[k][j].kind = "resp" =>
                LET code == trace[k][j].status_code
                    slept == j < Len(trace[k]) /\ trace[k][j + 1].kind = "sleep"
                    left == SleepsBefore(k, j) < conf.retry_count
                IN  /\ slept <=> (code \in 500..599 /\ left)
                    /\ ~slept => (j = Len(trace[k]) /\ Returned(k))
                    /\ (~slept /\ code # 200) =>
                          ReturnedPair(k, urls[k],
                              Some("response status code " \o ToString(code)))

C3_Witness ==
    \E k \in DOMAIN trace :
        /\ conf.retry_count = 2
        /\ Len(trace[k]) = 1
        /\ trace[k][1].kind = "resp"
        /\ trace[k][1].status_code = 600
        /\ ReturnedPair(k, urls[k], Some("response status code 600"))

C5_StopsAfterMaxErrors ==
    conf.max_errors >= 1 => errors_count <= conf.max_errors

(* C6: a KeyboardInterrupt raised while outcomes are dispatched or         *)
(* consumed ends the process with exit code 130, whatever error-count is.  *)
C6_InterruptExits130 ==
    interrupted => (pc = "exited" /\ exitcode = 130)

C6_Witness ==
    /\ interrupted
    /\ errors_count > 0
    /\ exitcode = 130

(* C7: in every run that is not interrupted the exit code is 0 iff         *)
(* error-count is 0 and 1 iff error-count > 0. Violated: an uncaught       *)
(* exception (line 115 without --base, line 132 with a negative            *)
(* retry_count) ends the process with code 1 and error-count 0.            *)
C7_ExitCodeFromErrorCount ==
    (pc = "exited" /\ ~interrupted) =>
        /\ exitcode \in {0, 1}
        /\ exitcode = 0 <=> errors_count = 0
        /\ exitcode = 1 <=> errors_count > 0

(* C8: every consumed outcome whose error is present (not None), whatever  *)
(* its text, adds exactly 1 to error-count and is printed. Violated: line  *)
(* 133 tests the truth of error, and the empty message is false.           *)
C8_PresentErrorIsCounted ==
    [][ (pc = "consume" /\ i' = i + 1 /\ Head(outq) # None) =>
            LET o == Head(outq)[1]
            IN  IF o.error # None
                THEN /\ errors_count' = errors_count + 1
                     /\ \E j \in (Len(out) + 1)..Len(out') :
                            out'[j] = [kind |-> "error", url |-> o.url,
                                       text |-> o.error[1]]
                ELSE /\ errors_count' = errors_count
                     /\ \A j \in (Len(out) + 1)..Len(out') : out'[j].kind # "error"
      ]_vars

----------------------------------------------------------------------------
(* The loader's result stated on the input text *)

NonBlank(line) == \E j \in 1..Len(line) : line[j] \notin Whitespace

\* the line from its first to its last non-whitespace character
Trimmed(line) ==
    LET idx == {j \in 1..Len(line) : line[j] \notin Whitespace}
        lo == CHOOSE j \in idx : \A m \in idx : j <= m
        hi == CHOOSE j \in idx : \A m \in idx : m <= j
    IN  SubSeq(line, lo, hi)

\* the trimmed non-blank lines, in input order
TrimmedLines ==
    LET kept == SelectSeq(input, NonBlank)
    IN  [k \in 1..Len(kept) |-> Trimmed(kept[k])]

\* s without its trailing slashes, s without its leading slashes
NoTrailingSlash(s) ==
    LET idx == {j \in 1..Len(s) : s[j] # "/"}
    IN  IF idx = {} THEN <<>>
        ELSE SubSeq(s, 1, CHOOSE j \in idx : \A m \in idx : m <= j)
NoLeadingSlash(s) ==
    LET idx == {j \in 1..Len(s) : s[j] # "/"}
    IN  IF idx = {} THEN <<>>
        ELSE SubSeq(s, CHOOSE j \in idx : \A m \in idx : j <= m, Len(s))

\* base without trailing slashes + "/" + fragment without leading slashes
Prefixed(base) ==
    [k \in 1..Len(TrimmedLines) |->
        NoTrailingSlash(base) \o <<"/">> \o NoLeadingSlash(TrimmedLines[k])]

(* C9: with or without --base the loader yields exactly one URL per line   *)
(* that is non-blank after trimming, in input order; without --base each   *)
(* URL is the trimmed line and the run goes on to dispatch. Violated:      *)
(* without --base conf.base is None and line 115 raises AttributeError.    *)
C9_OneUrlPerNonBlankLine ==
    pc # "load" =>
        /\ Len(urls) = Len(TrimmedLines)
        /\ conf.base = None => (urls = TrimmedLines /\ pc = "consume")

(* C10 as stated: whenever --base is given, each URL is the base without   *)
(* trailing slashes + "/" + the trimmed line without leading slashes.      *)
(* Violated by --base "": line 116 takes the empty base for no base.       *)
C10_AnyBasePrefixes ==
    (pc # "load" /\ conf.base # None) => urls = Prefixed(conf.base[1])

(* C10 amended: whenever a non-empty --base is given, each URL is the base *)
(* without trailing slashes + "/" + the trimmed line without leading       *)
(* slashes; ["a", "/b", ""] with a base "h/" yields ["h/a", "h/b"].        *)
C10_NonEmptyBasePrefixes ==
    (pc # "load" /\ conf.base # None /\ conf.base[1] # <<>>) =>
        /\ pc = "consume"
        /\ urls = Prefixed(conf.base[1])
        /\ (input = ExampleText /\ conf.base = Some(BaseUrl)) =>
              urls = << <<"h", "/", "a">>, <<"h", "/", "b">> >>

C10_Witness ==
    /\ pc = "consume"
    /\ conf.base = Some(<<"h", "/", "/">>)
    /\ input = << <<"/", "/", "\n">>, <<" ", "a", "\n">> >>
    /\ urls = << <<"h", "/">>, <<"h", "/", "a">> >>


----------------------------------------------------------------------------
(* Response-header assertions stated on the --check-headers arguments *)

\* the text without its leading and trailing whitespace
TrimText(s) ==
    LET idx == {j \in 1..Len(s) : s[j] \notin Whitespace}
    IN  IF idx = {} THEN <<>>
        ELSE SubSeq(s, CHOOSE j \in idx : \A m \in idx : j <= m,
                       CHOOSE j \in idx : \A m \in idx : m <= j)

\* "Name: Value" as written: the name before the first colon, the value after
AssertionOf(arg) ==
    LET colons == {j \in 1..Len(arg) : arg[j] = ":"}
        c == IF colons = {} THEN Len(arg) + 1
             ELSE CHOOSE j \in colons : \A m \in colons : j <= m
    IN  [name |-> TrimText(SubSeq(arg, 1, c - 1)),
         value |-> TrimText(SubSeq(arg, c + 1, Len(arg)))]

\* the assertions in configuration order, names as written
ConfiguredAssertions ==
    IF conf.check_headers = None
    THEN <<>>
    ELSE [j \in 1..Len(conf.check_headers[1]) |-> AssertionOf(conf.check_headers[1][j])]

\* the assertions with lower-cased names; a repeated name keeps its first
\* place and its last value
EffectiveAssertions ==
    LET C == [j \in 1..Len(ConfiguredAssertions) |->
                [name |-> lower(ConfiguredAssertions[j].name),
                 value |-> ConfiguredAssertions[j].value]]
        firsts == SelectSeq([j \in 1..Len(C) |-> j],
                            LAMBDA j : \A m \in 1..(j - 1) : C[m].name # C[j].name)
        LastOf(j) == CHOOSE m \in 1..Len(C) :
                        /\ C[m].name = C[j].name
                        /\ \A n \in 1..Len(C) : C[n].name = C[j].name => n <= m
    IN  [q \in 1..Len(firsts) |->
            [name |-> C[firsts[q]].name, value |-> C[LastOf(firsts[q])].value]]

\* the value of the response header called name (names compare without case)
HeaderValue(hdrs, name) ==
    LET m == {q \in 1..Len(hdrs) : lower(hdrs[q].name) = lower(name)}
    IN  IF m = {} THEN None
        ELSE Some(hdrs[CHOOSE q \in m : \A n \in m : q <= n].value)

\* every 200 response with a body ends its call, with success iff all of
\* `assertions` match and else with the error naming the first that does not
HeaderVerdict(assertions) ==
    \A k \in DOMAIN trace :
        \A j \in 1..Len(trace[k]) :
            LET r == trace[k][j]
            IN  (r.kind = "resp" /\ r.status_code = 200 /\ r.content > 0) =>
                  LET bad == {a \in 1..Len(assertions) :
                                HeaderValue(r.headers, assertions[a].name)
                                    # Some(assertions[a].value)}
                      first == CHOOSE a \in bad : \A b \in bad : a <= b
                  IN  /\ j = Len(trace[k])
                      /\ IF bad = {}
                         THEN ReturnedPair(k, urls[k], None)
                         ELSE ReturnedPair(k, urls[k],
                                Some("response headers check failed ("
                                     \o Str(assertions[first].name) \o ": "
                                     \o Str(assertions[first].value) \o ")"))

(* C11 as stated: a 200 response with a body is a success iff every        *)
(* configured assertion (name, expected value) matches the response header *)
(* exactly; otherwise the error is "response headers check failed          *)
(* (<name>: <value>)" for the first mismatching assertion in configuration *)
(* order, and the URL is not retried. Violated: the name is reported in    *)
(* lower case, and a repeated name keeps only its last value.              *)
C11_AssertionsAsConfigured == HeaderVerdict(ConfiguredAssertions)

(* C11 amended: the same with the assertions as parse_user_input_headers   *)
(* keeps them: names trimmed and lower-cased, values trimmed, a repeated   *)
(* name asserted once with its last value. A response header X: M against  *)
(* --check-headers "X: H" gives "response headers check failed (x: H)".    *)
C11_AssertionsAsParsed ==
    /\ HeaderVerdict(EffectiveAssertions)
    /\ \A k \in DOMAIN trace :
          ( /\ conf.check_headers = Some(<< <<"X", ":", " ", "H">> >>)
            /\ trace[k] # <<>>
            /\ trace[k][Len(trace[k])] = Response(200, 1, Miss) ) =>
                ReturnedPair(k, urls[k], Some("response headers check failed (x: H)"))

C11_Witness ==
    \E k \in DOMAIN trace :
        /\ conf.check_headers = Some(<< <<"X", ":", "H">>, <<"Y", " ", ":", "M", " ">> >>)
        /\ conf.retry_count = 2
        /\ Len(trace[k]) = 1
        /\ trace[k][1] = Response(200, 1, <<>>)
        /\ ReturnedPair(k, urls[k], Some("response headers check failed (x: H)"))


\* the result may be retried: a timeout or connection error, or a 5xx response
MayRetry(e) ==
    \/ e.kind = "conn"
    \/ e.kind = "resp" /\ e.status_code \in 500..599

(* C12: whatever mix of connection/timeout errors and 5xx responses a URL  *)
(* gets, it is attempted at most retry_count + 1 times; a URL whose every  *)
(* attempt was retryable gets exactly retry_count + 1 attempts, whatever   *)
(* the other URLs spent; and a connection/timeout error on the last        *)
(* allowed attempt is reported with the exception's message.               *)
C12_SharedPerUrlBudget ==
    \A k \in DOMAIN trace :
        /\ Len(Attempts(k)) <= conf.retry_count + 1 \/ Attempts(k) = <<>>
        /\ Len(Sleeps(k)) <= conf.retry_count \/ Sleeps(k) = <<>>
        /\ (Returned(k) /\ conf.retry_count >= 0
                /\ \A j \in 1..Len(Attempts(k)) : MayRetry(Attempts(k)[j])) =>
              /\ Len(Attempts(k)) = conf.retry_count + 1
              /\ LET last == Attempts(k)[Len(Attempts(k))]
                 IN  last.kind = "conn" => ReturnedPair(k, urls[k], Some(last.msg))

C12_Witness ==
    /\ conf.retry_count = 2
    /\ conf.threads = 1
    /\ Len(urls) = 2
    /\ Len(Attempts(1)) = 3
    /\ Attempts(1)[1].kind = "conn"
    /\ Attempts(1)[2].kind = "resp"
    /\ Attempts(1)[3].kind = "conn"
    /\ ReturnedPair(1, urls[1], Some("timed out"))
    /\ Len(Attempts(2)) = 3
    /\ Attempts(2)[1].kind = "resp"
    /\ Attempts(2)[3].kind = "conn"
    /\ Returned(2)


(* C13: an attempt whose result is not retryable (an exception other than  *)
(* connection/timeout, a response whose status is not 5xx) is the last     *)
(* entry of its URL's trace and the call has returned: no sleep and no GET *)
(* follows it, whatever retries remain. Such an exception is reported with *)
(* its message, and a 200 with an empty body yields "response empty"       *)
(* whatever the header assertions would say.                               *)
C13_NonRetryableEndsCall ==
    \A k \in DOMAIN trace :
        \A j \in 1..Len(trace[k]) :
            LET e == trace[k][j]
            IN  (e.kind # "sleep" /\ ~MayRetry(e)) =>
                  /\ j = Len(trace[k])
                  /\ Returned(k)
                  /\ e.kind = "exc" => ReturnedPair(k, urls[k], Some(e.msg))
                  /\ (e.kind = "resp" /\ e.status_code = 200 /\ e.content = 0) =>
                        ReturnedPair(k, urls[k], Some("response empty"))

C13_Witness ==
    \E k \in DOMAIN trace :
        /\ conf.retry_count = 2
        /\ conf.check_headers = Some(<< <<"X", ":", " ", "H">> >>)
        /\ trace[k] = <<Response(200, 0, Miss)>>
        /\ ReturnedPair(k, urls[k], Some("response empty"))


----------------------------------------------------------------------------
(* The pool seen from the URLs *)

\* the workers that run request_url for url k (attempting or sleeping)
Handlers(k) == {w \in DOMAIN workers : workers[w].task = k}

\* the URLs with a request in flight
InFlight == {k \in DOMAIN urls : Handlers(k) # {}}

(* C14: at most `threads` URLs have a request in flight, a worker handles  *)
(* one URL at a time (it is attempting or sleeping for exactly the URL it  *)
(* took, and idle otherwise), and no URL is handed to a worker more than   *)
(* once: a URL in flight has one handler and has not returned.             *)
C14_BoundedDisjointDispatch ==
    /\ Cardinality(InFlight) <= conf.threads
    /\ \A w \in DOMAIN workers :
          /\ workers[w].task \in 0..Len(urls)
          /\ workers[w].task = 0 <=> workers[w].phase = "idle"
          /\ workers[w].phase \in {"idle", "loop", "sleep"}
    /\ \A k \in DOMAIN urls :
          /\ handed[k] <= 1
          /\ Cardinality(Handlers(k)) <= 1
          /\ Handlers(k) # {} => (handed[k] = 1 /\ ~Returned(k))
          /\ (Returned(k) \/ trace[k] # <<>>) => handed[k] = 1

C14_Witness ==
    /\ conf.threads = 2
    /\ Len(urls) = 3
    /\ workers[1].task = 2
    /\ workers[1].phase = "sleep"
    /\ workers[2].task = 1
    /\ workers[2].phase = "loop"
    /\ handed = <<1, 1, 0>>


----------------------------------------------------------------------------
(* The aggregator's counters *)

\* the "<url> <error>" lines printed so far
ErrorLines(printed) == {j \in 1..Len(printed) : printed[j].kind = "error"}

\* this step is one iteration of the for loop
ConsumeStep == pc = "consume" /\ i' = i + 1

(* C15: error-count changes only in an iteration of the aggregator's loop, *)
(* never decreases, grows by 1 exactly when the consumed outcome is a      *)
(* failure (its error is present) and by 0 otherwise, and always equals    *)
(* the number of "<url> <error>" lines printed. Violated: an outcome whose *)
(* error is the empty message is a failure that line 133 does not count.   *)
C15_CountsEveryFailure ==
    [][ /\ errors_count' # errors_count => ConsumeStep
        /\ errors_count' \in {errors_count, errors_count + 1}
        /\ (ConsumeStep /\ Head(outq) # None) =>
              errors_count' - errors_count =
                  IF Head(outq)[1].error # None THEN 1 ELSE 0
        /\ Cardinality(ErrorLines(out')) = errors_count'
      ]_vars


----------------------------------------------------------------------------
(* Termination *)

\* the for loop consumed exactly one outcome for each URL
AllConsumedOnce ==
    /\ i = Len(urls)
    /\ \A k \in DOMAIN urls : (Len(seen) = Len(urls) /\ seen[k] = 1 /\ Returned(k))

\* the main thread keeps running; an interrupt may or may not come
MainFairness ==
    /\ WF_vars(Load)
    /\ WF_vars(Consume)
    /\ WF_vars(Finish)
    /\ WF_vars(Exit)

\* the network of a run towards an early stop: good responses and server errors
StopWorld == { Response(200, 1, Hit), Response(503, 0, <<>>) }

\* --retry-count values of such a run: the default, one retry
StopRetryCounts == {0, 1}

InitStop ==
    \E threads \in 1..MaxThreads, retry_count \in StopRetryCounts,
       max_errors \in -1..MaxErrors :
        Start(Config(Some(BaseUrl), threads, None, retry_count, max_errors, FALSE),
              RunInput(MaxUrls), StopWorld)

\* the main thread runs, the worker threads may hang in a GET for ever
StopSpec == InitStop /\ [][Next]_vars /\ MainFairness

\* the worker threads are scheduled too and every GET and every sleep returns
Fairness ==
    /\ MainFairness
    /\ WF_vars(\E w \in DOMAIN workers : TakeTask(w))
    /\ WF_vars(\E w \in DOMAIN workers : Attempt(w))
    /\ WF_vars(\E w \in DOMAIN workers : Wake(w))

FairSpec == Spec /\ Fairness

(* C16: a run that is neither interrupted nor stopped early ends only      *)
(* after the aggregator consumed exactly one outcome for each input URL.   *)
(* Violated: without --base (line 115) and with a negative retry_count     *)
(* (line 132) the run dies of an uncaught exception before that.           *)
C16_EndsAfterAllConsumed ==
    (pc = "exited" /\ ~interrupted /\ ~broke) => AllConsumedOnce


\* a worker is in the middle of a request_url call
Busy(w) == workers[w] # Idle

(* C17: once the aggregator has stopped early the process exits with code  *)
(* 1, whether or not the worker threads ever finish their requests.        *)
C17_StopLeadsToExit ==
    broke ~> (pc = "exited" /\ exitcode = 1)

C17_Witness ==
    /\ broke
    /\ pc = "exited"
    /\ exitcode = 1
    /\ \E w \in DOMAIN workers : Busy(w)


----------------------------------------------------------------------------
(* After the early stop *)

\* request_url returned for urls[k] and the for loop never got the outcome
Discarded(k) ==
    /\ Returned(k)
    /\ seen[k] = 0
    /\ \A j \in 1..Len(outq) : outq[j] = None \/ outq[j][1].url # urls[k]

----------------------------------------------------------------------------
(* The progress indicator *)

ProgressLines(printed) ==
    {j \in 1..Len(printed) : printed[j].kind = "progress"}

\* the loop iteration for the i'-th outcome printed the percentage 100*i'/total
ShowsProgress ==
    /\ Len(out') > Len(out)
    /\ \E j \in (Len(out) + 1)..Len(out') :
          out'[j] = Printed("progress", <<>>, Percent(i', Len(urls)))

(* C19: with progress on, each outcome received, the one that triggers the *)
(* early stop included, updates the indicator to 100*i/total; the values   *)
(* rise strictly, never exceed 100 and are 100 exactly at the last URL's   *)
(* outcome; with no URLs nothing is shown and the run exits 0.             *)
(* Violated: a run without URLs and without --base exits 1 (line 115), and *)
(* the iteration that breaks at line 140 does not reach line 142.          *)
C19_ProgressPerOutcome ==
    [][ /\ (ConsumeStep /\ Head(outq) # None /\ ~conf.no_progress) =>
              /\ ShowsProgress
              /\ i > 0 => Hundredths(i', Len(urls)) > Hundredths(i, Len(urls))
              /\ Hundredths(i', Len(urls)) <= 10000
              /\ Hundredths(i', Len(urls)) = 10000 <=> i' = Len(urls)
        /\ (Len(urls') = 0 /\ pc' = "exited" /\ ~interrupted') =>
              /\ ProgressLines(out') = {}
              /\ exitcode' = 0
      ]_vars


----------------------------------------------------------------------------
(* Bounds of the counters *)

\* errors_count has reached max_errors + 1
AtLimit(count) == count = conf.max_errors + 1

(* C20: for max_errors >= 0, errors_count <= max_errors + 1 and            *)
(* errors_count <= i <= len(urls) in every state; errors_count becomes     *)
(* max_errors + 1 only in the iteration that stops the loop, and does not  *)
(* change afterwards.                                                      *)
C20_CountersBounded ==
    [][ conf.max_errors >= 0 =>
          /\ errors_count' <= conf.max_errors + 1
          /\ errors_count' <= i'
          /\ i' <= Len(urls')
          /\ AtLimit(errors_count') <=> broke'
          /\ (AtLimit(errors_count') /\ ~AtLimit(errors_count)) =>
                (ConsumeStep /\ pc' = "after")
          /\ AtLimit(errors_count) => errors_count' = errors_count
      ]_vars

C20_Witness ==
    /\ conf.max_errors >= 0
    /\ AtLimit(errors_count)
    /\ broke
    /\ pc = "exited"
    /\ i < Len(urls)

====
